---- MODULE Spec2Model ----
(***************************************************************************)
(* Model of src/src/selectcoin.rs: the coin selection orchestrator         *)
(* select_coin, which applies the five selection algorithms and keeps the  *)
(* result with the lowest waste in a mutex protected SharedState.          *)
(***************************************************************************)
EXTENDS Integers, Sequences, FiniteSets, TLC

VARIABLES
    inputs,        \* &[OutputGroup]: the candidate coins of the call
    options,       \* &CoinSelectionOpt of the call
    pc,            \* position of the thread that runs select_coin
    i,             \* index (1-based) of the `for &algorithm in &algorithms` loop
    thread,        \* thread[a]: position of the thread spawned for algorithm a
    result,        \* result[a]: the local `result` of that thread (line 45)
    best_result,   \* the SharedState behind Arc<Mutex<..>>
    mutex,         \* holder of the Mutex, or NoThread
    strong_count,  \* number of Arc handles to the SharedState
    ret,           \* value returned by select_coin
    call,          \* number of the call of select_coin that is running
    first,         \* the results and the return value of the first call
    counts         \* counts[a]: how often the call invoked algorithm a, its
                   \* thread took the lock, and its outcome was merged

vars == <<inputs, options, pc, i, thread, result, best_result, mutex, strong_count,
          ret, call, first, counts>>

\* ------------------------------------------------------------------ bounds
\* largest waste an algorithm of the abstract specification reports
MaxWaste == 1

\* largest value of a candidate coin
MaxValue == 3

\* largest target_value of a call
MaxTarget == 4

\* number of branches the branch and bound search explores at most
BnbMaxTries == 3

\* number of passes of the approximate subset-sum search
KnapsackPasses == 2

\* ---------------------------------------------------------------- results
\* Result<SelectionOutput, SelectionError>
Ok(selected_inputs, waste) ==
    [tag |-> "Ok", selected_inputs |-> selected_inputs, waste |-> waste, err |-> "None"]

Err(e) ==
    [tag |-> "Err", selected_inputs |-> <<>>, waste |-> 0, err |-> e]

SelectionError == {"InsufficientFunds", "NoSolutionFound"}

IsOk(r) == r.tag = "Ok"

IsErr(r) == r.tag = "Err"

None == [tag |-> "None", selected_inputs |-> <<>>, waste |-> 0, err |-> "None"]

NoThread == "none"

\* the vector `algorithms` of select_coin, in its order
algorithms == <<"bnb", "fifo", "lowestlarger", "srd", "knapsack">>

Algorithm == {algorithms[k] : k \in 1..Len(algorithms)}

\* position of an algorithm in `algorithms`
IndexOf(a) == CHOOSE k \in 1..Len(algorithms) : algorithms[k] = a

\* ------------------------------------------------------------ shared state
SharedState(r, any) == [result |-> r, any_success |-> any]

\* variants of MergeResult with one slip each: `<=` for `<` ...
MergeNonStrict(state, r) ==
    IF IsOk(r)
    THEN IF (IF IsOk(state.result) THEN r.waste <= state.result.waste ELSE TRUE)
         THEN SharedState(r, TRUE)
         ELSE state
    ELSE IF r.err = "InsufficientFunds" /\ ~state.any_success
         THEN SharedState(Err("InsufficientFunds"), state.any_success)
         ELSE state

\* ... `>` for `<` ...
MergeGreater(state, r) ==
    IF IsOk(r)
    THEN IF (IF IsOk(state.result) THEN r.waste > state.result.waste ELSE TRUE)
         THEN SharedState(r, TRUE)
         ELSE state
    ELSE IF r.err = "InsufficientFunds" /\ ~state.any_success
         THEN SharedState(Err("InsufficientFunds"), state.any_success)
         ELSE state

\* ... no test of any_success before InsufficientFunds is stored ...
MergeNoFlagCheck(state, r) ==
    IF IsOk(r)
    THEN IF (IF IsOk(state.result) THEN r.waste < state.result.waste ELSE TRUE)
         THEN SharedState(r, TRUE)
         ELSE state
    ELSE IF r.err = "InsufficientFunds"
         THEN SharedState(Err("InsufficientFunds"), state.any_success)
         ELSE state

\* ... every error stored, not only InsufficientFunds ...
MergeAnyError(state, r) ==
    IF IsOk(r)
    THEN IF (IF IsOk(state.result) THEN r.waste < state.result.waste ELSE TRUE)
         THEN SharedState(r, TRUE)
         ELSE state
    ELSE IF ~state.any_success
         THEN SharedState(Err(r.err), state.any_success)
         ELSE state

\* ... and `Err(_) => false`
MergeErrKept(state, r) ==
    IF IsOk(r)
    THEN IF (IF IsOk(state.result) THEN r.waste < state.result.waste ELSE FALSE)
         THEN SharedState(r, TRUE)
         ELSE state
    ELSE IF r.err = "InsufficientFunds" /\ ~state.any_success
         THEN SharedState(Err("InsufficientFunds"), state.any_success)
         ELSE state

\* a variant of MergeResult that keeps the selection already in the slot and
\* takes only the lower waste
MergeWasteOnly(state, r) ==
    IF IsOk(r)
    THEN IF (IF IsOk(state.result) THEN r.waste < state.result.waste ELSE TRUE)
         THEN SharedState(Ok(IF IsOk(state.result) THEN state.result.selected_inputs
                                                   ELSE r.selected_inputs,
                             r.waste), TRUE)
         ELSE state
    ELSE IF r.err = "InsufficientFunds" /\ ~state.any_success
         THEN SharedState(Err("InsufficientFunds"), state.any_success)
         ELSE state

\* the match of lines 47-63, applied to the state under the lock
MergeResult(state, r) ==
    IF IsOk(r)
    THEN IF (IF IsOk(state.result) THEN r.waste < state.result.waste ELSE TRUE)
         THEN SharedState(r, TRUE)
         ELSE state
    ELSE IF r.err = "InsufficientFunds" /\ ~state.any_success
         THEN SharedState(Err("InsufficientFunds"), state.any_success)
         ELSE state

\* ------------------------------------------------------- coins and options
\* Option<u32>::None of creation_sequence
NoSequence == -1

OutputGroup(value, weight, creation_sequence) ==
    [value |-> value, weight |-> weight, input_count |-> 1,
     creation_sequence |-> creation_sequence]

CoinSelectionOpt(target_value, target_feerate, excess_strategy) ==
    [target_value |-> target_value, target_feerate |-> target_feerate,
     long_term_feerate |-> 0, min_absolute_fee |-> 1, base_weight |-> 1,
     change_weight |-> 1, change_cost |-> 1, avg_input_weight |-> 1,
     avg_output_weight |-> 1, min_change_value |-> 1,
     excess_strategy |-> excess_strategy]

\* indices into the coin list, as selected_inputs holds them (from 0)
Indices(ins) == 0..(Len(ins) - 1)

CoinAt(ins, j) == ins[j + 1]

\* the sequences of distinct indices of length n
Arrangements(ins, n) ==
    {s \in [1..n -> Indices(ins)] : \A j, k \in 1..n : j # k => s[j] # s[k]}

IndexPermutations(ins) == Arrangements(ins, Len(ins))

\* every non-empty list of valid indices without repetition
SelectionsOf(ins) == UNION {Arrangements(ins, n) : n \in 1..Len(ins)}

RECURSIVE ValueOf(_, _)
ValueOf(ins, sel) ==
    IF sel = <<>> THEN 0
    ELSE CoinAt(ins, Head(sel)).value + ValueOf(ins, Tail(sel))

RECURSIVE WeightOf(_, _)
WeightOf(ins, sel) ==
    IF sel = <<>> THEN 0
    ELSE CoinAt(ins, Head(sel)).weight + WeightOf(ins, Tail(sel))

Max(x, y) == IF x >= y THEN x ELSE y

\* ------------------------------------------------------------ waste metric
\* fee = ceil(total_weight * target_feerate), at least min_absolute_fee; the
\* feerates of the model are whole numbers, so the product is its own ceiling
Fee(weight, opt) == Max(weight * opt.target_feerate, opt.min_absolute_fee)

\* the fee of a selection without a change output
FeeOf(ins, opt, sel) == Fee(opt.base_weight + WeightOf(ins, sel), opt)

\* the running sum covers target_value plus the fee of the running weight
Covers(ins, opt, sel) ==
    ValueOf(ins, sel) >= opt.target_value + FeeOf(ins, opt, sel)

Excess(ins, opt, sel) ==
    ValueOf(ins, sel) - opt.target_value - FeeOf(ins, opt, sel)

CreatesChange(ins, opt, sel) ==
    \/ Excess(ins, opt, sel) >= opt.min_change_value + opt.change_cost
    \/ opt.excess_strategy = "ToChange"

Waste(ins, opt, sel) ==
    WeightOf(ins, sel) * (opt.target_feerate - opt.long_term_feerate)
    + (IF CreatesChange(ins, opt, sel) THEN opt.change_cost ELSE Excess(ins, opt, sel))

Selected(ins, opt, sel) == Ok(sel, Waste(ins, opt, sel))

Least(S) == CHOOSE x \in S : \A y \in S : x <= y

\* a variant of Accumulate that forgets the fee
AccumulateNoFee(ins, opt, order) ==
    LET enough == {k \in 1..Len(order) :
                      ValueOf(ins, SubSeq(order, 1, k)) >= opt.target_value}
    IN  IF enough = {} THEN Err("InsufficientFunds")
        ELSE Selected(ins, opt, SubSeq(order, 1, Least(enough)))

\* accumulate the coins in the given order until the running sum covers
\* the target and the fee, which is computed again for each coin added
Accumulate(ins, opt, order) ==
    LET enough == {k \in 1..Len(order) : Covers(ins, opt, SubSeq(order, 1, k))}
    IN  IF enough = {} THEN Err("InsufficientFunds")
        ELSE Selected(ins, opt, SubSeq(order, 1, Least(enough)))

\* the indices sorted ascending by a key, key[j] the key of index j; equal
\* coins keep the order of the list, their keys being made distinct by j
SortedBy(ins, key) ==
    CHOOSE p \in IndexPermutations(ins) :
        \A j, k \in 1..Len(ins) : j < k => key[p[j]] < key[p[k]]

\* ---------------------------------------------------------- the algorithms
\* Oldest-First: by creation_sequence ascending, the coins without a
\* sequence after the others in the order of the list
FifoOrder(ins) ==
    LET sequences == {CoinAt(ins, j).creation_sequence : j \in Indices(ins)}
        last == 1 + (CHOOSE x \in sequences : \A y \in sequences : y <= x)
        Rank(j) == IF CoinAt(ins, j).creation_sequence = NoSequence
                   THEN last
                   ELSE CoinAt(ins, j).creation_sequence
    IN  SortedBy(ins, [j \in Indices(ins) |-> Rank(j) * Len(ins) + j])

select_coin_fifo(ins, opt) == {Accumulate(ins, opt, FifoOrder(ins))}

AscendingByValue(ins) ==
    SortedBy(ins, [j \in Indices(ins) |-> CoinAt(ins, j).value * Len(ins) + j])

DescendingByValue(ins) ==
    SortedBy(ins, [j \in Indices(ins) |-> (0 - CoinAt(ins, j).value) * Len(ins) + j])

\* Lowest-Larger: the smallest single coin that covers the target and its
\* fee, else the coins from the largest to the smallest
select_coin_lowestlarger(ins, opt) ==
    LET asc == AscendingByValue(ins)
        single == {k \in 1..Len(asc) : Covers(ins, opt, <<asc[k]>>)}
    IN  IF single # {}
        THEN {Selected(ins, opt, <<asc[Least(single)]>>)}
        ELSE {Accumulate(ins, opt, DescendingByValue(ins))}

\* Single Random Draw: a random permutation of the indices, accumulated
select_coin_srd(ins, opt) == {Accumulate(ins, opt, p) : p \in IndexPermutations(ins)}

\* the successes of lowest waste among a set of outcomes
BestOf(outcomes) ==
    LET ok == {r \in outcomes : IsOk(r)}
    IN  {r \in ok : \A q \in ok : r.waste <= q.waste}

\* Knapsack: up to KnapsackPasses passes, each a random shuffle accumulated
\* until the target is met; the best feasible subset of the passes is kept.
\* The passes are given by the outcomes they have.
select_coin_knapsack(ins, opt) ==
    LET pass == {Accumulate(ins, opt, p) : p \in IndexPermutations(ins)}
        passes == {P \in SUBSET pass :
                      Cardinality(P) >= 1 /\ Cardinality(P) <= KnapsackPasses}
        Outcome(P) ==
            IF BestOf(P) = {} THEN {Err("NoSolutionFound")} ELSE BestOf(P)
    IN  UNION {Outcome(P) : P \in passes}

\* Branch and Bound: the subsets the depth-first search visits over the
\* coins sorted descending by value, the inclusion branch first; a branch
\* whose remaining coins cannot reach the target is abandoned
RECURSIVE Visited(_, _, _, _, _)
Visited(ins, opt, order, k, sel) ==
    IF k > Len(order) THEN <<>>
    ELSE IF ValueOf(ins, sel) + ValueOf(ins, SubSeq(order, k, Len(order)))
               < opt.target_value
         THEN <<>>
         ELSE <<Append(sel, order[k])>>
              \o Visited(ins, opt, order, k + 1, Append(sel, order[k]))
              \o Visited(ins, opt, order, k + 1, sel)

select_coin_bnb(ins, opt) ==
    LET all == Visited(ins, opt, DescendingByValue(ins), 1, <<>>)
        tries == IF Len(all) <= BnbMaxTries THEN Len(all) ELSE BnbMaxTries
        feasible == {all[k] : k \in {j \in 1..tries : Covers(ins, opt, all[j])}}
        least == {s \in feasible :
                     \A t \in feasible : Waste(ins, opt, s) <= Waste(ins, opt, t)}
        winner == Least({k \in 1..tries : all[k] \in least})
    IN  IF feasible = {} THEN {Err("NoSolutionFound")}
        ELSE {Selected(ins, opt, all[winner])}

\* the outcomes algorithm(inputs, options) can have
Outcomes(a, ins, opt) ==
    CASE a = "bnb" -> select_coin_bnb(ins, opt)
      [] a = "fifo" -> select_coin_fifo(ins, opt)
      [] a = "lowestlarger" -> select_coin_lowestlarger(ins, opt)
      [] a = "srd" -> select_coin_srd(ins, opt)
      [] a = "knapsack" -> select_coin_knapsack(ins, opt)

\* ------------------------------------------------- the abstract algorithms
\* select_coin sees each algorithm only as a CoinSelectionFn: a function
\* from the coins and the options to a Result.
Wastes == 0..MaxWaste

AnyOutcome(a, ins, opt) ==
    {Ok(s, w) : s \in SelectionsOf(ins), w \in Wastes}
        \cup {Err(e) : e \in SelectionError}

\* ------------------------------------------------------------------- Init
BasicInputs == <<OutputGroup(1, 1, NoSequence), OutputGroup(2, 2, NoSequence)>>

BasicOptions == CoinSelectionOpt(1, 1, "ToChange")

Weights == {1, 2}

Coins == {OutputGroup(v, w, NoSequence) : v \in 1..MaxValue, w \in Weights}

CoinCounts == {1, 2, 3}

\* the coins in their list order, without creation_sequence ...
Unsequenced == UNION {[1..n -> Coins] : n \in CoinCounts}

\* ... or with one that reverses the list order
Sequenced(ins) ==
    [k \in 1..Len(ins) |-> [ins[k] EXCEPT !.creation_sequence = Len(ins) - k]]

InputLists ==
    Unsequenced \cup {Sequenced(ins) : ins \in {l \in Unsequenced : Len(l) = 2}}

\* the lists of three coins of weight 1, for the specification of two calls
LightLists == {ins \in [1..3 -> Coins] : \A k \in 1..3 : ins[k].weight = 1}

OptionSets ==
    {CoinSelectionOpt(t, f, x) :
        t \in 1..MaxTarget, f \in {0, 1}, x \in {"ToFee", "ToChange"}}

NoCounts == [invoked |-> 0, locked |-> 0, merged |-> 0]

InitCall(ins, opt) ==
    /\ inputs = ins
    /\ options = opt
    /\ pc = "loop"
    /\ i = 1
    /\ thread = [a \in Algorithm |-> "unspawned"]
    /\ result = [a \in Algorithm |-> None]
    /\ best_result = SharedState(Err("NoSolutionFound"), FALSE)
    /\ mutex = NoThread
    /\ strong_count = 1
    /\ ret = None
    /\ counts = [a \in Algorithm |-> NoCounts]

NoCall == [ret |-> None, result |-> [a \in Algorithm |-> None]]

Init ==
    /\ InitCall(BasicInputs, BasicOptions)
    /\ call = 1
    /\ first = NoCall

InitCoins ==
    /\ \E ins \in InputLists, opt \in OptionSets : InitCall(ins, opt)
    /\ call = 1
    /\ first = NoCall

\* the options without a feerate, the excess going to the fee
PlainOptions ==
    {opt \in OptionSets : opt.target_feerate = 0 /\ opt.excess_strategy = "ToFee"}

InitTwice ==
    /\ \E ins \in LightLists, opt \in PlainOptions : InitCall(ins, opt)
    /\ call = 1
    /\ first = NoCall

\* ---------------------------------------------------------------- actions
\* a variant of Spawn that skips the algorithms left once one has succeeded
SpawnUnlessSuccess ==
    /\ pc = "loop"
    /\ i <= Len(algorithms)
    /\ IF best_result.any_success
       THEN /\ i' = i + 1
            /\ pc' = IF i = Len(algorithms) THEN "extract" ELSE "loop"
            /\ thread' = [thread EXCEPT ![algorithms[i]] = "finished"]
            /\ UNCHANGED strong_count
       ELSE /\ strong_count' = strong_count + 1
            /\ thread' = [thread EXCEPT ![algorithms[i]] = "spawned"]
            /\ pc' = "scope"
            /\ UNCHANGED i
    /\ UNCHANGED <<inputs, options, result, best_result, mutex, ret, call, first, counts>>

\* lines 41-44: one iteration of the loop clones the Arc, opens a scope and
\* spawns the thread of algorithms[i]
Spawn ==
    /\ pc = "loop"
    /\ i <= Len(algorithms)
    /\ strong_count' = strong_count + 1
    /\ thread' = [thread EXCEPT ![algorithms[i]] = "spawned"]
    /\ pc' = "scope"
    /\ UNCHANGED <<inputs, options, i, result, best_result, mutex, ret, call, first, counts>>

\* line 45: let result = algorithm(inputs, options)
CallAlgorithm(a, outcomes) ==
    /\ thread[a] = "spawned"
    /\ \E r \in outcomes :
          result' = [result EXCEPT ![a] = r]
    /\ thread' = [thread EXCEPT ![a] = "computed"]
    /\ counts' = [counts EXCEPT ![a].invoked = @ + 1]
    /\ UNCHANGED <<inputs, options, pc, i, best_result, mutex, strong_count, ret, call, first>>

\* a variant of Lock that takes the lock before the algorithm is called
LockEarly(a) ==
    /\ thread[a] = "spawned"
    /\ mutex = NoThread
    /\ mutex' = a
    /\ thread' = [thread EXCEPT ![a] = "locked"]
    /\ counts' = [counts EXCEPT ![a].locked = @ + 1]
    /\ UNCHANGED <<inputs, options, pc, i, result, best_result, strong_count, ret, call, first>>

\* line 46: best_result_clone.lock().unwrap()
Lock(a) ==
    /\ thread[a] = "computed"
    /\ mutex = NoThread
    /\ mutex' = a
    /\ thread' = [thread EXCEPT ![a] = "locked"]
    /\ counts' = [counts EXCEPT ![a].locked = @ + 1]
    /\ UNCHANGED <<inputs, options, pc, i, result, best_result, strong_count, ret, call, first>>

\* lines 47-63: the match on the thread's result, under the lock
Merge(a) ==
    /\ thread[a] = "locked"
    /\ mutex = a
    /\ best_result' = MergeResult(best_result, result[a])
    /\ thread' = [thread EXCEPT ![a] = "merged"]
    /\ counts' = [counts EXCEPT ![a].merged = @ + 1]
    /\ UNCHANGED <<inputs, options, pc, i, result, mutex, strong_count, ret, call, first>>

\* a variant of Unlock in which the guard is never dropped
UnlockKeepsMutex(a) ==
    /\ thread[a] = "merged"
    /\ mutex = a
    /\ thread' = [thread EXCEPT ![a] = "finished"]
    /\ UNCHANGED <<inputs, options, pc, i, result, best_result, mutex, strong_count, ret, call, first, counts>>

\* line 64: the closure ends, the MutexGuard is dropped, the thread finishes
Unlock(a) ==
    /\ thread[a] = "merged"
    /\ mutex = a
    /\ mutex' = NoThread
    /\ thread' = [thread EXCEPT ![a] = "finished"]
    /\ UNCHANGED <<inputs, options, pc, i, result, best_result, strong_count, ret, call, first, counts>>

\* a variant of ScopeEnd that does not wait for the thread
ScopeEndNoJoin ==
    /\ pc = "scope"
    /\ strong_count' = strong_count - 1
    /\ i' = i + 1
    /\ pc' = IF i = Len(algorithms) THEN "extract" ELSE "loop"
    /\ UNCHANGED <<inputs, options, thread, result, best_result, mutex, ret, call, first, counts>>

\* a variant of ScopeEnd in which the iteration keeps best_result_clone
ScopeEndLeak ==
    /\ pc = "scope"
    /\ thread[algorithms[i]] = "finished"
    /\ i' = i + 1
    /\ pc' = IF i = Len(algorithms) THEN "extract" ELSE "loop"
    /\ UNCHANGED <<inputs, options, thread, result, best_result, mutex, strong_count, ret,
                   call, first, counts>>

\* lines 65-66: thread::scope returns once the thread it spawned has
\* finished; the iteration ends and drops best_result_clone
ScopeEnd ==
    /\ pc = "scope"
    /\ thread[algorithms[i]] = "finished"
    /\ strong_count' = strong_count - 1
    /\ i' = i + 1
    /\ pc' = IF i = Len(algorithms) THEN "extract" ELSE "loop"
    /\ UNCHANGED <<inputs, options, thread, result, best_result, mutex, ret, call, first, counts>>

\* lines 68-72: Arc::try_unwrap(..).expect(..).into_inner().expect(..).result
Extract ==
    /\ pc = "extract"
    /\ IF strong_count = 1 /\ mutex = NoThread
       THEN /\ ret' = best_result.result
            /\ pc' = "done"
       ELSE /\ ret' = ret
            /\ pc' = "panic"
    /\ UNCHANGED <<inputs, options, i, thread, result, best_result, mutex, strong_count,
                   call, first, counts>>

\* a second call of select_coin with the same coins and options
CallAgain ==
    /\ pc = "done"
    /\ call = 1
    /\ first' = [ret |-> ret, result |-> result]
    /\ call' = 2
    /\ pc' = "loop"
    /\ i' = 1
    /\ thread' = [a \in Algorithm |-> "unspawned"]
    /\ result' = [a \in Algorithm |-> None]
    /\ best_result' = SharedState(Err("NoSolutionFound"), FALSE)
    /\ ret' = None
    /\ counts' = [a \in Algorithm |-> NoCounts]
    /\ UNCHANGED <<inputs, options, mutex, strong_count>>

\* select_coin over algorithms that are any CoinSelectionFn
Next ==
    \/ Spawn
    \/ \E a \in Algorithm : CallAlgorithm(a, AnyOutcome(a, inputs, options))
    \/ \E a \in Algorithm : Lock(a)
    \/ \E a \in Algorithm : Merge(a)
    \/ \E a \in Algorithm : Unlock(a)
    \/ ScopeEnd
    \/ Extract

Spec == Init /\ [][Next]_vars

\* the outcomes of a CoinSelectionFn up to the coins selected, which have no
\* part in the order of the steps
KindOutcome(a, ins, opt) ==
    {r \in AnyOutcome(a, ins, opt) : IsOk(r) => r.selected_inputs = <<0>>}

NextFair ==
    \/ Spawn
    \/ \E a \in Algorithm : CallAlgorithm(a, KindOutcome(a, inputs, options))
    \/ \E a \in Algorithm : Lock(a)
    \/ \E a \in Algorithm : Merge(a)
    \/ \E a \in Algorithm : Unlock(a)
    \/ ScopeEnd
    \/ Extract

\* the scheduler runs a thread that can take a step, and each algorithm
\* returns: a step that stays possible is taken
SpecFair == Init /\ [][NextFair]_vars /\ WF_vars(NextFair)

\* ---------------------------------------- the two assignments of the Ok arm
\* lines 49-52: the outcome of a is a success that replaces the slot's result
Replaces(a) ==
    /\ IsOk(result[a])
    /\ IsOk(best_result.result) => result[a].waste < best_result.result.waste

\* line 53: state.result = Ok(selection_output)
StoreResult(a) ==
    /\ thread[a] = "locked"
    /\ mutex = a
    /\ Replaces(a)
    /\ best_result' = SharedState(result[a], best_result.any_success)
    /\ thread' = [thread EXCEPT ![a] = "stored"]
    /\ UNCHANGED <<inputs, options, pc, i, result, mutex, strong_count, ret, call, first,
                   counts>>

\* a variant of SetAnySuccess that leaves the flag as it was
SetAnySuccessSkipped(a) ==
    /\ thread[a] = "stored"
    /\ mutex = a
    /\ thread' = [thread EXCEPT ![a] = "merged"]
    /\ counts' = [counts EXCEPT ![a].merged = @ + 1]
    /\ UNCHANGED <<inputs, options, pc, i, result, best_result, mutex, strong_count, ret,
                   call, first>>

\* line 54: state.any_success = true
SetAnySuccess(a) ==
    /\ thread[a] = "stored"
    /\ mutex = a
    /\ best_result' = SharedState(best_result.result, TRUE)
    /\ thread' = [thread EXCEPT ![a] = "merged"]
    /\ counts' = [counts EXCEPT ![a].merged = @ + 1]
    /\ UNCHANGED <<inputs, options, pc, i, result, mutex, strong_count, ret, call, first>>

\* lines 47-63 when the outcome does not replace the slot's success
MergeElse(a) ==
    /\ ~Replaces(a)
    /\ Merge(a)

NextSlot ==
    \/ Spawn
    \/ \E a \in Algorithm : CallAlgorithm(a, KindOutcome(a, inputs, options))
    \/ \E a \in Algorithm : Lock(a)
    \/ \E a \in Algorithm : StoreResult(a)
    \/ \E a \in Algorithm : SetAnySuccess(a)
    \/ \E a \in Algorithm : MergeElse(a)
    \/ \E a \in Algorithm : Unlock(a)
    \/ ScopeEnd
    \/ Extract

\* select_coin with the statements under the lock taken one at a time
SpecSlot == Init /\ [][NextSlot]_vars

\* select_coin over the five algorithms of the crate
NextCoins ==
    \/ Spawn
    \/ \E a \in Algorithm : CallAlgorithm(a, Outcomes(a, inputs, options))
    \/ \E a \in Algorithm : Lock(a)
    \/ \E a \in Algorithm : Merge(a)
    \/ \E a \in Algorithm : Unlock(a)
    \/ ScopeEnd
    \/ Extract

SpecCoins == InitCoins /\ [][NextCoins]_vars

\* two calls of select_coin, one after the other, on the same input
NextTwice ==
    \/ NextCoins
    \/ CallAgain

SpecTwice == InitTwice /\ [][NextTwice]_vars

\* ------------------------------------------------------- claims under Spec
Succeeded == {a \in Algorithm : IsOk(result[a])}

\* the lowest waste among the successful outcomes of the call
MinWaste == CHOOSE w \in {result[a].waste : a \in Succeeded} :
                \A a \in Succeeded : w <= result[a].waste

\* the first algorithm, in the order of `algorithms`, that reached MinWaste
FirstBest == CHOOSE a \in Succeeded :
                /\ result[a].waste = MinWaste
                /\ \A b \in Succeeded :
                      result[b].waste = MinWaste => IndexOf(a) <= IndexOf(b)

\* C1: when at least one algorithm succeeded, select_coin returns a success
\* whose waste is the minimum of the wastes of the successful outcomes.
C1_ReturnsMinimumWaste ==
    (pc = "done" /\ Succeeded # {}) =>
        /\ IsOk(ret)
        /\ ret.waste = MinWaste
        /\ \A a \in Succeeded : ret.waste <= result[a].waste

C1_Witness ==
    /\ pc = "done"
    /\ IsOk(result["bnb"]) /\ result["bnb"].waste = 1
    /\ IsErr(result["fifo"])
    /\ IsOk(result["srd"]) /\ result["srd"].waste = 0
    /\ IsOk(result["knapsack"]) /\ result["knapsack"].waste = 1
    /\ IsOk(ret) /\ ret.waste = 0

\* C2: select_coin returns a failure exactly when no algorithm succeeded, and
\* the failure is InsufficientFunds when some algorithm reported it and
\* NoSolutionFound otherwise.
C2_FailureClassified ==
    pc = "done" =>
        /\ IsErr(ret) <=> Succeeded = {}
        /\ IsErr(ret) =>
              ret.err = IF \E a \in Algorithm : result[a].err = "InsufficientFunds"
                        THEN "InsufficientFunds"
                        ELSE "NoSolutionFound"

C2_Witness ==
    /\ pc = "done"
    /\ Succeeded = {}
    /\ result["bnb"].err = "NoSolutionFound"
    /\ result["fifo"].err = "InsufficientFunds"
    /\ result["knapsack"].err = "NoSolutionFound"
    /\ ret = Err("InsufficientFunds")

\* C3: once the shared state holds a success it holds a success in every
\* later state; a failure merged afterwards does not replace it.
C3_SuccessIsKept ==
    [][IsOk(best_result.result) => IsOk(best_result'.result)]_vars

C3_Witness ==
    /\ IsOk(result["bnb"])
    /\ result["fifo"].err = "InsufficientFunds"
    /\ thread["fifo"] = "finished"
    /\ IsOk(best_result.result)
    /\ best_result.any_success

\* C8: select_coin starts the five threads before it waits for any of them.
C8_AllSpawnedBeforeWaiting ==
    pc = "scope" => \A a \in Algorithm : thread[a] # "unspawned"

\* C9: a merged success replaces the shared result exactly when that result
\* is a failure or a success of strictly greater waste; the recorded waste
\* never increases and of two equal wastes the one merged first is kept.
C9_ReplaceOnlyWhenBetter ==
    [][\A a \in Algorithm :
          (thread[a] = "locked" /\ thread'[a] = "merged" /\ IsOk(result[a])) =>
             /\ IF IsErr(best_result.result)
                   \/ best_result.result.waste > result[a].waste
                THEN best_result'.result = result[a]
                ELSE best_result' = best_result
             /\ IsOk(best_result.result) =>
                   /\ IsOk(best_result'.result)
                   /\ best_result'.result.waste <= best_result.result.waste]_vars

C9_Witness ==
    /\ thread["fifo"] = "merged"
    /\ IsOk(result["bnb"]) /\ IsOk(result["fifo"])
    /\ result["bnb"].waste = result["fifo"].waste
    /\ result["bnb"].selected_inputs # result["fifo"].selected_inputs
    /\ best_result.result = result["bnb"]

\* C10: of several algorithms that succeed with the same minimal waste,
\* select_coin returns the selection of the one that comes first in
\* `algorithms`, in that algorithm's order of indices.
C10_FirstInListWinsTie ==
    (pc = "done" /\ Succeeded # {}) => ret = result[FirstBest]

C10_Witness ==
    /\ pc = "done"
    /\ IsOk(result["fifo"]) /\ IsOk(result["lowestlarger"])
    /\ result["fifo"].waste = result["lowestlarger"].waste
    /\ result["fifo"].selected_inputs # result["lowestlarger"].selected_inputs
    /\ IsOk(result["bnb"]) => result["bnb"].waste >= result["fifo"].waste
    /\ IsErr(result["bnb"])
    /\ \A a \in Succeeded : result[a].waste >= result["fifo"].waste
    /\ ret = result["fifo"]

\* -------------------------------------------------- claims under SpecCoins
\* all the coins of the list, in its order
AllCoins(ins) == [k \in 1..Len(ins) |-> k - 1]

\* the fee of a transaction without inputs: no selection pays less
MinimumFee(opt) == Fee(opt.base_weight, opt)

InsufficientTotal ==
    ValueOf(inputs, AllCoins(inputs)) < options.target_value + MinimumFee(options)

\* C4: when the sum of all coin values is less than target_value plus the
\* minimum fee, select_coin returns Err(InsufficientFunds).
C4_InsufficientFunds ==
    (pc = "done" /\ InsufficientTotal) => ret = Err("InsufficientFunds")

C4_Witness ==
    /\ pc = "done"
    /\ InsufficientTotal
    /\ Len(inputs) = 3
    /\ result["bnb"] = Err("NoSolutionFound")
    /\ result["fifo"] = Err("InsufficientFunds")
    /\ result["knapsack"] = Err("NoSolutionFound")
    /\ ret = Err("InsufficientFunds")

\* the coins together cover target_value and the fee of spending them all
SufficientTotal == Covers(inputs, options, AllCoins(inputs))

\* C5: when the funds of the coins cover target_value and the required fee,
\* select_coin returns a success with a non-empty selected_inputs.
C5_SuccessWhenFundsSuffice ==
    (pc = "done" /\ SufficientTotal) =>
        /\ IsOk(ret)
        /\ ret.selected_inputs # <<>>

C5_Witness ==
    /\ pc = "done"
    /\ SufficientTotal
    /\ Len(inputs) = 3
    /\ options.target_feerate = 1
    /\ IsOk(result["srd"])
    /\ IsOk(ret)
    /\ Len(ret.selected_inputs) = 2

NoRepeat(sel) == \A j, k \in DOMAIN sel : j # k => sel[j] # sel[k]

\* C6: a successful result selects coins whose values sum to at least
\* target_value plus the fee of the selected weight, by valid indices into the
\* coin list, none of them repeated.
C6_SelectionCoversTarget ==
    (pc = "done" /\ IsOk(ret)) =>
        /\ ValueOf(inputs, ret.selected_inputs)
              >= options.target_value + FeeOf(inputs, options, ret.selected_inputs)
        /\ \A k \in DOMAIN ret.selected_inputs :
              ret.selected_inputs[k] \in Indices(inputs)
        /\ NoRepeat(ret.selected_inputs)

C6_Witness ==
    /\ pc = "done"
    /\ IsOk(ret)
    /\ options.target_feerate = 1
    /\ Len(ret.selected_inputs) = 2
    /\ FeeOf(inputs, options, ret.selected_inputs) > MinimumFee(options)
    /\ ValueOf(inputs, ret.selected_inputs)
          = options.target_value + FeeOf(inputs, options, ret.selected_inputs)

\* -------------------------------------------------- claims under SpecTwice
SameKindAndWaste(r, q) ==
    /\ r.tag = q.tag
    /\ r.err = q.err
    /\ r.waste = q.waste

\* the algorithms that draw at random
Randomized == {"srd", "knapsack"}

\* the returned success is reached by no algorithm that does not draw
RandomAlone(results, r) ==
    /\ IsOk(r)
    /\ \A a \in Algorithm \ Randomized :
          IsOk(results[a]) => results[a].waste > r.waste

SecondCallDone == call = 2 /\ pc = "done"

Holders == {a \in Algorithm : thread[a] \in {"locked", "merged"}}

\* C11: each thread takes the lock exactly once, after its algorithm has
\* returned, and compares and updates the shared state inside that one
\* critical section; no two threads hold the lock at the same time.
C11_LockOnceAroundMerge ==
    /\ [](/\ Cardinality(Holders) <= 1
          /\ \A a \in Algorithm :
                /\ counts[a].locked <= 1
                /\ a \in Holders <=> mutex = a
                /\ thread[a] = "finished" => counts[a].locked = 1)
    /\ [][/\ \A a \in Algorithm :
                counts'[a].locked > counts[a].locked =>
                    /\ result[a] # None
                    /\ counts[a].invoked = 1
                    /\ mutex = NoThread
          /\ best_result' # best_result =>
                \E a \in Algorithm :
                    /\ mutex = a /\ mutex' = a
                    /\ counts[a].locked = 1
                    /\ best_result' = MergeResult(best_result, result[a])]_vars

C11_Witness ==
    /\ thread["fifo"] = "merged"
    /\ mutex = "fifo"
    /\ counts["fifo"].locked = 1
    /\ counts["bnb"].locked = 1
    /\ IsOk(result["bnb"])
    /\ result["fifo"].waste < result["bnb"].waste
    /\ best_result.result = result["fifo"]

\* C12: select_coin reads the shared state and returns only after all five
\* threads have finished and merged their outcomes; nothing writes to the
\* shared state once it is read, so the value returned is its final value.
C12_ReturnsAfterAllMerged ==
    /\ [](pc \in {"extract", "done"} =>
             \A a \in Algorithm : thread[a] = "finished" /\ counts[a].merged = 1)
    /\ [](pc = "done" => ret = best_result.result)
    /\ [][(pc \in {"extract", "done"}) => (best_result' = best_result)]_vars

C12_Witness ==
    /\ pc = "done"
    /\ IsOk(result["bnb"])
    /\ IsOk(result["knapsack"])
    /\ result["knapsack"].waste < result["bnb"].waste
    /\ ret = result["knapsack"]
    /\ ret = best_result.result

\* C13: no cancellation and no retry: every call invokes each of the five
\* algorithms exactly once and merges its outcome exactly once, whatever the
\* other algorithms returned, also after a success has been recorded.
C13_EachAlgorithmOnce ==
    \A a \in Algorithm :
        /\ counts[a].invoked <= 1
        /\ counts[a].merged <= 1
        /\ counts[a].merged <= counts[a].invoked
        /\ pc \in {"extract", "done"} =>
              counts[a].invoked = 1 /\ counts[a].merged = 1

C13_Witness ==
    /\ pc = "done"
    /\ IsOk(result["bnb"]) /\ result["bnb"].waste = 0
    /\ result["fifo"] = Err("InsufficientFunds")
    /\ IsOk(result["srd"])
    /\ \A a \in Algorithm : counts[a].invoked = 1 /\ counts[a].merged = 1
    /\ ret = result["bnb"]

\* C14: provided each algorithm returns, every call of select_coin returns;
\* no execution is stuck at the lock or at the end of a scope.
C14_EventuallyReturns == <>(pc = "done")

C14_Witness ==
    /\ pc = "done"
    /\ \A a \in Algorithm : counts[a].locked = 1 /\ thread[a] = "finished"
    /\ mutex = NoThread
    /\ ret = Err("NoSolutionFound")

\* C15: a successful result of select_coin is, unmodified, the output of one
\* algorithm on the inputs of the call: whenever the slot takes a new success
\* it is the whole outcome (selected_inputs in their order, and waste) of the
\* thread that holds the lock; the success in the slot is at all times the
\* outcome of an algorithm that has merged, and the value returned is that
\* outcome.
C15_SuccessIsOneOutcome ==
    /\ [](IsOk(best_result.result) =>
             \E a \in Algorithm :
                 /\ counts[a].merged = 1
                 /\ best_result.result = result[a])
    /\ []((pc = "done" /\ IsOk(ret)) =>
             \E a \in Algorithm :
                 /\ ret.selected_inputs = result[a].selected_inputs
                 /\ ret.waste = result[a].waste
                 /\ ret = result[a])
    /\ [][(best_result'.result # best_result.result /\ IsOk(best_result'.result)) =>
             \E a \in Algorithm :
                 /\ mutex = a
                 /\ best_result'.result = result[a]]_vars

\* select_coin returned the two coins in the order fifo gave them, after bnb
\* had stored the same coins in the other order with a higher waste
C15_Witness ==
    /\ pc = "done"
    /\ IsOk(result["bnb"]) /\ IsOk(result["fifo"])
    /\ result["bnb"].selected_inputs = <<0, 1>>
    /\ result["fifo"].selected_inputs = <<1, 0>>
    /\ result["fifo"].waste < result["bnb"].waste
    /\ ret = result["fifo"]
    /\ ret.selected_inputs = <<1, 0>>

\* the algorithm whose thread merges its outcome in this step
Merging(a) == thread[a] = "locked" /\ thread'[a] = "merged"

\* C16: merging an outcome of NoSolutionFound leaves the slot (result and
\* any_success) unchanged; in particular a slot holding InsufficientFunds is
\* not reset to NoSolutionFound, and merging any failure into a slot that
\* holds a success leaves the success and its waste unchanged.
C16_FailureLeavesSlot ==
    [][\A a \in Algorithm :
          Merging(a) =>
              /\ result[a] = Err("NoSolutionFound") => best_result' = best_result
              /\ (result[a] = Err("NoSolutionFound")
                    /\ best_result.result = Err("InsufficientFunds")) =>
                     best_result'.result = Err("InsufficientFunds")
              /\ (IsErr(result[a]) /\ IsOk(best_result.result)) =>
                     /\ best_result' = best_result
                     /\ best_result'.result.waste = best_result.result.waste]_vars

\* fifo has merged NoSolutionFound into the slot in which bnb had recorded
\* InsufficientFunds, and the slot still holds InsufficientFunds
C16_Witness ==
    /\ result["bnb"] = Err("InsufficientFunds")
    /\ result["fifo"] = Err("NoSolutionFound")
    /\ thread["fifo"] = "merged"
    /\ counts["fifo"].merged = 1
    /\ best_result = SharedState(Err("InsufficientFunds"), FALSE)

\* C17: whenever no thread holds the lock, any_success is true exactly when
\* the slot's result is a success; before any outcome has been stored the
\* slot is Err(NoSolutionFound) with any_success false.
C17_FlagIffSuccess ==
    /\ mutex = NoThread => (best_result.any_success <=> IsOk(best_result.result))
    /\ (\A a \in Algorithm : thread[a] \in {"unspawned", "spawned", "computed", "locked"}) =>
           best_result = SharedState(Err("NoSolutionFound"), FALSE)

\* the lock is free again after fifo stored its success over a recorded
\* InsufficientFunds and set the flag
C17_Witness ==
    /\ mutex = NoThread
    /\ result["bnb"] = Err("InsufficientFunds")
    /\ IsOk(result["fifo"])
    /\ thread["fifo"] = "finished"
    /\ best_result = SharedState(result["fifo"], TRUE)

\* C18: when select_coin extracts the result it holds the only handle to the
\* slot and no thread holds the lock, so Arc::try_unwrap and into_inner
\* succeed: select_coin never panics, and what it returns is the slot's
\* result.
C18_ExtractionSucceeds ==
    /\ pc # "panic"
    /\ pc = "extract" =>
           /\ strong_count = 1
           /\ mutex = NoThread
           /\ Holders = {}
    /\ pc = "done" => strong_count = 1 /\ mutex = NoThread /\ ret = best_result.result

\* all five iterations took and dropped a clone, and the extraction returned
\* the success left in the slot
C18_Witness ==
    /\ pc = "done"
    /\ strong_count = 1
    /\ mutex = NoThread
    /\ \A a \in Algorithm : thread[a] = "finished" /\ counts[a].invoked = 1
    /\ result["knapsack"] = Err("InsufficientFunds")
    /\ IsOk(result["srd"])
    /\ IsOk(ret)

====
